---- MODULE Spec2Model ----
(***************************************************************************)
(* sccs2svn.py: conversion of a tree of SCCS histories into one Subversion *)
(* repository.  The model follows run(): the deltas read from the SCCS     *)
(* tree are sorted by time, merged into change sets, and every change set  *)
(* is replayed by SVNInterface.add through the Subversion filesystem       *)
(* layer; two sweeps (properties, keywords) close the run.                 *)
(*                                                                         *)
(* Path strings are sequences of path components: "/pm/y" is <<"pm","y">>  *)
(* and "/" is <<>>.  A date (a time tuple) is a record [min, sec].         *)
(***************************************************************************)
EXTENDS Integers, Sequences, FiniteSets, TLC

\* ------------------------------------------------------------------ bounds
\* Longest list of deltas read from the SCCS tree.
MaxRecords == 3
\* The batch of SVNInterface.add and of idKeyUpdate (1000 deltas in the
\* source), scaled down so that a change set of the model is split.
DeltaBatch == 2
\* The filename batch of SVNInterface.propertyUpdate (3000 in the source),
\* scaled down in the same way.
FilenameBatch == 3

\* time.mktime(date)
mktime(date) == 60 * date.min + date.sec

\* ------------------------------------------------------- the input universe
\* options.sccs_repository, without a trailing slash.
rootDirectory == <<"root">>
\* options.userid
userid == "admin"

\* The s-files of the SCCS tree.
Pathnames ==
    { <<"root", "pm", "SCCS", "s.y">>,
      <<"root", "pm", "SCCS", "s.x.c">>,
      <<"root", "pm", "y", "SCCS", "s.x.c">> }

\* (author, comment) pairs of the deltas: they differ in the author alone, in
\* the comment alone, or in neither.
Intents == { <<"u1", "m1">>, <<"u2", "m1">>, <<"u1", "m2">> }
\* Time tuples 5 and 10 seconds apart, across a minute boundary.
Dates == { [min |-> 0, sec |-> 55], [min |-> 1, sec |-> 0], [min |-> 1, sec |-> 5] }

\* What one line group of the prs output gives, before the version is known.
RawDelta(p, a, d) == [pathname |-> p, author |-> a[1], date |-> d, comment |-> a[2]]

\* The deltas the merge is tried on: every path, intent and date.
RawDeltas == { RawDelta(p, a, d) : p \in Pathnames, a \in Intents, d \in Dates }

\* The deltas whole runs are tried on: on every path, two deltas of one intent
\* five seconds apart, and at the later date one delta of each other intent.
RunDeltas ==
    { r \in RawDeltas :
        /\ mktime(r.date) <= 60
        /\ mktime(r.date) < 60 => (r.author = "u1" /\ r.comment = "m1") }

\* SCCSDelta(filename, version, user, dateTime, comments): the version is
\* unique among the deltas of one s-file.
SCCSDelta(raw, n) ==
    [pathname |-> raw.pathname, version |-> n, author |-> raw.author,
     date |-> raw.date, comment |-> raw.comment]

\* The global list versions as the walk leaves it: the n-th delta of a file
\* gets version n.
Versioned(raws) ==
    [j \in 1..Len(raws) |->
        SCCSDelta(raws[j],
                  Cardinality({h \in 1..j : raws[h].pathname = raws[j].pathname}))]

\* --------------------------------------------------------- pure functions
\* subversionTime(t): the formatted date string.
subversionTime(t) == <<"T", t.min, t.sec, "Z">>

\* time.localtime() at the time of the conversion.
localtime == [min |-> 99, sec |-> 0]

Abs(x) == IF x < 0 THEN -x ELSE x

\* SCCSDelta.match, with the author test left out.
matchNoAuthor(self, otherDelta) ==
    /\ self.comment = otherDelta.comment
    /\ self.pathname # otherDelta.pathname
    /\ Abs(mktime(self.date) - mktime(otherDelta.date)) < 10

\* SCCSDelta.match, with the window test inclusive.
matchInclusive(self, otherDelta) ==
    /\ self.author = otherDelta.author
    /\ self.comment = otherDelta.comment
    /\ self.pathname # otherDelta.pathname
    /\ Abs(mktime(self.date) - mktime(otherDelta.date)) <= 10

\* SCCSDelta.match
match(self, otherDelta) ==
    /\ self.author = otherDelta.author
    /\ self.comment = otherDelta.comment
    /\ self.pathname # otherDelta.pathname
    /\ Abs(mktime(self.date) - mktime(otherDelta.date)) < 10

\* deltaSort
deltaSort(deltaOne, deltaTwo) ==
    IF mktime(deltaOne.date) < mktime(deltaTwo.date) THEN -1
    ELSE IF mktime(deltaOne.date) > mktime(deltaTwo.date) THEN 1
    ELSE 0

\* Insertion before the elements that compare equal: an unstable sort.
RECURSIVE InsertSortedUnstable(_, _)
InsertSortedUnstable(x, s) ==
    IF s = <<>> THEN <<x>>
    ELSE IF deltaSort(Head(s), x) < 0
         THEN <<Head(s)>> \o InsertSortedUnstable(x, Tail(s))
    ELSE <<x>> \o s

\* Insertion of x into the sorted list s after every element that does not
\* compare greater: the step of a stable sort.
RECURSIVE InsertSorted(_, _)
InsertSorted(x, s) ==
    IF s = <<>> THEN <<x>>
    ELSE IF deltaSort(Head(s), x) <= 0 THEN <<Head(s)>> \o InsertSorted(x, Tail(s))
    ELSE <<x>> \o s

RECURSIVE SortFrom(_, _)
SortFrom(s, acc) ==
    IF s = <<>> THEN acc ELSE SortFrom(Tail(s), InsertSorted(Head(s), acc))

\* versions.sort(deltaSort): list.sort is stable.
SortVersions(s) == SortFrom(s, <<>>)

\* os.path.dirname
dirname(p) == IF p = <<>> THEN <<>> ELSE SubSeq(p, 1, Len(p) - 1)

\* A component that begins with "s.", and the component without it.
HasSPrefix(c) == c \in {"s.y", "s.x.c"}
StripSPrefix(c) == CASE c = "s.y" -> "y" [] c = "s.x.c" -> "x.c" [] OTHER -> c

\* name.replace(SCCSDelta.rootDirectory, "", 1) for a name that starts with it.
StripRoot(p) ==
    IF Len(p) >= Len(rootDirectory) /\ SubSeq(p, 1, Len(rootDirectory)) = rootDirectory
    THEN SubSeq(p, Len(rootDirectory) + 1, Len(p))
    ELSE p

\* pathname.replace("SCCS/s.", "", 1)
StripSCCS(p) ==
    LET hits == {j \in 1..(Len(p) - 1) : p[j] = "SCCS" /\ HasSPrefix(p[j + 1])}
    IN  IF hits = {} THEN p
        ELSE LET j == CHOOSE h \in hits : \A h2 \in hits : h <= h2
             IN  SubSeq(p, 1, j - 1) \o <<StripSPrefix(p[j + 1])>>
                   \o SubSeq(p, j + 2, Len(p))

\* SCCSDelta.getRepositoryName
getRepositoryName(delta) == StripRoot(StripSCCS(delta.pathname))

\* SCCSDelta.getFilename
getFilename(delta) == StripSPrefix(delta.pathname[Len(delta.pathname)])

\* SCCSDelta.getDirectory
getDirectory(delta) == dirname(dirname(StripRoot(delta.pathname)))

\* SCCSDelta.getDate
getDate(delta) == subversionTime(delta.date)

\* SCCSDelta.getFileContents: the text of the file at this version.
getFileContents(delta) == <<delta.pathname, delta.version>>

\* isTextFilename: re.match of the text pattern.  Its first alternative,
\* ".*pm", has no "$" and matches a name that contains "pm" anywhere; the others
\* match a name by its ending.
ContainsPm(c) == c \in {"pm"}
EndsAsText(c) == c \in {"x.c", "s.x.c"}
isTextFilename(filename) ==
    \/ \E j \in 1..Len(filename) : ContainsPm(filename[j])
    \/ Len(filename) > 0 /\ EndsAsText(filename[Len(filename)])

\* ------------------------------------------- the Subversion filesystem layer
\* A tree maps the paths that exist to their nodes.
DirNode == [kind |-> "dir", props |-> {}]
FileNode(contents, props) == [kind |-> "file", contents |-> contents, props |-> props]
EmptyTree == (<<>> :> DirNode)

\* fs.check_path
check_path(root, path) == IF path \in DOMAIN root THEN root[path].kind ELSE "none"

\* "elif kind == core.svn_node_dir" left out of add.
neverDirectory(kind) == FALSE

\* add: "elif kind == core.svn_node_dir: raise EnvironmentError".
isDirectory(kind) == kind = "dir"

\* fs.make_dir fails on a path that exists or whose parent is no directory.
make_dir_fails(root, directory) ==
    \/ directory \in DOMAIN root
    \/ check_path(root, dirname(directory)) # "dir"
make_dir(root, directory) == root @@ (directory :> DirNode)

\* fs.make_file
make_file(root, path) == root @@ (path :> FileNode(<<>>, {}))

\* fs.apply_textdelta and svn_txdelta_send_string: the file gets new contents.
send_string(root, path, contents) ==
    [root EXCEPT ![path] = FileNode(contents, root[path].props)]

\* fs.change_node_prop
change_node_prop(root, path, name) ==
    [root EXCEPT ![path] = FileNode(root[path].contents, root[path].props \cup {name})]

\* The repository after svnadmin create: revision 0, an empty root.
Revision0 ==
    [root |-> EmptyTree, author |-> "none", log |-> "none",
     date |-> subversionTime(localtime), committed_date |-> "unset"]

\* fs.youngest_rev: revision r is revs[r + 1].
youngest_rev(rs) == Len(rs) - 1

\* svn_repos_fs_begin_txn_for_commit and fs.txn_root: a transaction on top of
\* the revision, with its author and log message.
begin_txn(rs, rev, author, message) ==
    [base |-> rev, author |-> author, log |-> message, root |-> rs[rev + 1].root,
     open |-> TRUE]

\* fs.change_rev_prop of the two date properties of revision rev.
change_rev_date(rs, rev, date) ==
    [rs EXCEPT ![rev + 1].date = date, ![rev + 1].committed_date = date]

\* svn_repos_fs_commit_txn: the transaction becomes the next revision, dated by
\* the filesystem with the time of the commit.
commit_txn(rs, txn) ==
    Append(rs, [root |-> txn.root, author |-> txn.author, log |-> txn.log,
                date |-> subversionTime(localtime), committed_date |-> "unset"])

\* SVNInterface._commit(rev, date, txn): the revisions after it.
_commit(rs, rev, date, txn) == commit_txn(change_rev_date(rs, rev, date), txn)

\* ------------------------------------------------------------------ state
VARIABLES
    versions,          \* the global list of deltas
    pc,                \* where run() is
    mergedVersions,    \* the change sets
    i,                 \* the index of the merge loop (from 1)
    g,                 \* the index of the change set being added
    deltas,            \* add / idKeyUpdate: the deltas not yet in a batch
    new_deltas,        \* add / idKeyUpdate: the batch
    k,                 \* the index of the loop over the batch
    directoriesToAdd,  \* _addDirectories: the directories still to make
    addedDirectories,  \* SVNInterface.addedDirectories
    revs,              \* the revisions of the repository
    txns,              \* the transactions begun, in order
    revision,          \* the local revision of the method that runs
    filenames,         \* run: the dictionary filenames, in its order
    names,             \* propertyUpdate: the filenames not yet in a batch
    new_filenames,     \* propertyUpdate: the batch
    calls,             \* the calls made on the filesystem, in order
    entry              \* history: the revision and the memo when add was called

vars == <<versions, pc, mergedVersions, i, g, deltas, new_deltas, k,
          directoriesToAdd, addedDirectories, revs, txns, revision,
          filenames, names, new_filenames, calls, entry>>

\* The transaction the running method holds: the last one begun.
transaction == Len(txns)

Take(s, n) == SubSeq(s, 1, IF Len(s) < n THEN Len(s) ELSE n)
\* The rest cut one element too far: deltas[1001:].
DropOneMore(s, n) == SubSeq(s, n + 2, Len(s))
Drop(s, n) == SubSeq(s, n + 1, Len(s))

\* The state when run() has walked the SCCS tree: versions holds up to
\* MaxRecords deltas of the universe, in the order they were met.
Walked(universe) ==
    /\ \E n \in 0..MaxRecords : \E raws \in [1..n -> universe] :
           versions = Versioned(raws)
    /\ pc = "sort"
    /\ mergedVersions = <<>>
    /\ i = 0
    /\ g = 0
    /\ deltas = <<>>
    /\ new_deltas = <<>>
    /\ k = 0
    /\ directoriesToAdd = <<>>
    /\ addedDirectories = {<<>>}
    /\ revs = <<Revision0>>
    /\ txns = <<>>
    /\ revision = 0
    /\ filenames = <<>>
    /\ names = <<>>
    /\ new_filenames = <<>>
    /\ calls = <<>>
    /\ entry = [rev |-> 0, added |-> {<<>>}]

Init == Walked(RunDeltas)

InitMerge == Walked(RawDeltas)

\* ------------------------------------------------------------------ run()
\* versions.sort(deltaSort), the exit on an empty list, and the first change
\* set [[versions[0]]] of the merge.
Sort ==
    /\ pc = "sort"
    /\ versions' = SortVersions(versions)
    /\ IF Len(versions) = 0
       THEN pc' = "exit" /\ UNCHANGED <<mergedVersions, i>>
       ELSE pc' = "merge" /\ mergedVersions' = << <<versions'[1]>> >> /\ i' = 1
    /\ UNCHANGED <<g, deltas, new_deltas, k, directoriesToAdd, addedDirectories,
                   revs, txns, revision, filenames, names, new_filenames, calls, entry>>

\* One turn of the merge loop (i counts from 1 here, from 0 in the source).
mergeStep(merged, delta) ==
    LET last == merged[Len(merged)]
    IN  IF match(delta, last[Len(last)])
        THEN [merged EXCEPT ![Len(merged)] = Append(last, delta)]
        ELSE Append(merged, <<delta>>)

Merge ==
    /\ pc = "merge"
    /\ i <= Len(versions)
    /\ mergedVersions' = mergeStep(mergedVersions, versions[i])
    /\ i' = i + 1
    /\ UNCHANGED <<versions, pc, g, deltas, new_deltas, k, directoriesToAdd,
                   addedDirectories, revs, txns, revision, filenames, names, new_filenames, calls, entry>>

\* The loop "for i in mergedVersions: interface.add(i)": the call of add for
\* the next change set.
AddCall ==
    /\ \/ pc = "merge" /\ i > Len(versions) /\ g' = 1
       \/ pc = "added" /\ g < Len(mergedVersions) /\ g' = g + 1
    /\ deltas' = mergedVersions[g']
    /\ entry' = [rev |-> youngest_rev(revs), added |-> addedDirectories]
    /\ pc' = "add"
    /\ UNCHANGED <<versions, mergedVersions, i, new_deltas, k, directoriesToAdd,
                   addedDirectories, revs, txns, revision, filenames, names,
                   new_filenames, calls>>

\* ------------------------------------------------------ SVNInterface.add
\* One turn of "while len(deltas)": the batch is cut off the front.
AddBatch ==
    /\ pc = "add"
    /\ deltas # <<>>
    /\ new_deltas' = Take(deltas, DeltaBatch)
    /\ deltas' = Drop(deltas, DeltaBatch)
    /\ k' = 1
    /\ pc' = "add_dirs"
    /\ UNCHANGED <<versions, mergedVersions, i, g, directoriesToAdd, addedDirectories,
                   revs, txns, revision, filenames, names, new_filenames, calls, entry>>

\* add returns once deltas is empty.
AddReturn ==
    /\ pc = "add"
    /\ deltas = <<>>
    /\ pc' = "added"
    /\ UNCHANGED <<versions, mergedVersions, i, g, deltas, new_deltas, k,
                   directoriesToAdd, addedDirectories, revs, txns, revision,
                   filenames, names, new_filenames, calls, entry>>

\* SVNInterface._directoriesToAdd with the memo ignored.
RECURSIVE directoriesAbove(_, _)
directoriesAbove(directoryName, added) ==
    IF directoryName = <<>> THEN <<>>
    ELSE directoriesAbove(dirname(directoryName), added) \o <<directoryName>>

\* SVNInterface._directoriesToAdd with the test of the memo inverted.
RECURSIVE directoriesKnown(_, _)
directoriesKnown(directoryName, added) ==
    IF directoryName = <<>> THEN <<>>
    ELSE directoriesKnown(dirname(directoryName), added)
           \o (IF directoryName \in added THEN <<directoryName>> ELSE <<>>)

\* The loop of SVNInterface._directoriesToAdd from directoryName upwards: it
\* ends at "/" (and at the empty string), and skips what the memo holds.
RECURSIVE directoriesFrom(_, _)
directoriesFrom(directoryName, added) ==
    IF directoryName = <<>> THEN <<>>
    ELSE directoriesFrom(dirname(directoryName), added)
           \o (IF directoryName \notin added THEN <<directoryName>> ELSE <<>>)

\* SVNInterface._directoriesToAdd
_directoriesToAdd(delta, added) == directoriesFrom(getDirectory(delta), added)

\* SVNInterface._revisionSetup that begins on top of the youngest revision.
_revisionSetup(rs, author, message) ==
    begin_txn(rs, youngest_rev(rs), author, message)

\* "for delta in new_deltas: self._addDirectories(delta)": a delta that needs no
\* new directory is passed; for another the directory transaction begins.
AddDirectories ==
    /\ pc = "add_dirs"
    /\ k <= Len(new_deltas)
    /\ LET todo == _directoriesToAdd(new_deltas[k], addedDirectories)
       IN  IF Len(todo) = 0
           THEN /\ k' = k + 1
                /\ UNCHANGED <<pc, directoriesToAdd, txns, revision>>
           ELSE /\ revision' = youngest_rev(revs)
                /\ txns' = Append(txns, _revisionSetup(revs, userid,
                                                      "Automatic directory addition"))
                /\ directoriesToAdd' = todo
                /\ pc' = "make_dir"
                /\ UNCHANGED k
    /\ UNCHANGED <<versions, mergedVersions, i, g, deltas, new_deltas,
                   addedDirectories, revs, filenames, names, new_filenames, calls, entry>>

\* fs.make_dir for the next directory, and its entry in the memo; the error of
\* the filesystem ends the run.
MakeDir ==
    /\ pc = "make_dir"
    /\ directoriesToAdd # <<>>
    /\ LET directory == Head(directoriesToAdd)
           root == txns[transaction].root
       IN  /\ calls' = Append(calls, [op |-> "make_dir", path |-> directory,
                                      txn |-> transaction])
           /\ IF make_dir_fails(root, directory)
              THEN /\ pc' = "SubversionException"
                   /\ UNCHANGED <<txns, addedDirectories, directoriesToAdd>>
              ELSE /\ txns' = [txns EXCEPT ![transaction].root = make_dir(root, directory)]
                   /\ addedDirectories' = addedDirectories \cup {directory}
                   /\ directoriesToAdd' = Tail(directoriesToAdd)
                   /\ UNCHANGED pc
    /\ UNCHANGED <<versions, mergedVersions, i, g, deltas, new_deltas, k, revs,
                   revision, filenames, names, new_filenames, entry>>

\* The end of _addDirectories: self._commit(revision, delta.getDate(), ...).
CommitDirectories ==
    /\ pc = "make_dir"
    /\ directoriesToAdd = <<>>
    /\ revs' = _commit(revs, revision, getDate(new_deltas[k]), txns[transaction])
    /\ txns' = [txns EXCEPT ![transaction].open = FALSE]
    /\ k' = k + 1
    /\ pc' = "add_dirs"
    /\ UNCHANGED <<versions, mergedVersions, i, g, deltas, new_deltas,
                   directoriesToAdd, addedDirectories, revision, filenames, names,
                   new_filenames, calls, entry>>

\* After the directories: the content transaction, with the author and the
\* comment of new_deltas[0].
BeginContent ==
    /\ pc = "add_dirs"
    /\ k > Len(new_deltas)
    /\ revision' = youngest_rev(revs)
    /\ txns' = Append(txns, _revisionSetup(revs, new_deltas[1].author,
                                          new_deltas[1].comment))
    /\ k' = 1
    /\ pc' = "add_files"
    /\ UNCHANGED <<versions, mergedVersions, i, g, deltas, new_deltas,
                   directoriesToAdd, addedDirectories, revs, filenames, names,
                   new_filenames, calls, entry>>

\* One turn of the content loop: the path is checked, made if it is absent,
\* and gets the contents of the delta; a directory at the path raises
\* EnvironmentError, which ends the run.
SendFile ==
    /\ pc = "add_files"
    /\ k <= Len(new_deltas)
    /\ LET delta == new_deltas[k]
           subversionPath == getRepositoryName(delta)
           root == txns[transaction].root
           kind == check_path(root, subversionPath)
       IN  IF isDirectory(kind)
           THEN /\ pc' = "EnvironmentError"
                /\ UNCHANGED <<txns, k, calls>>
           ELSE /\ txns' = [txns EXCEPT ![transaction].root =
                               send_string(IF kind = "none"
                                           THEN make_file(root, subversionPath)
                                           ELSE root,
                                           subversionPath, getFileContents(delta))]
                /\ calls' = Append(calls, [op |-> "send", path |-> subversionPath,
                                          txn |-> transaction, delta |-> delta])
                /\ k' = k + 1
                /\ UNCHANGED pc
    /\ UNCHANGED <<versions, mergedVersions, i, g, deltas, new_deltas,
                   directoriesToAdd, addedDirectories, revs, revision, filenames,
                   names, new_filenames, entry>>

\* After the content loop: self._commit(revision, delta.getDate(), ...), where
\* delta is what the loop left: the last delta of the batch.
CommitContent ==
    /\ pc = "add_files"
    /\ k > Len(new_deltas)
    /\ revs' = _commit(revs, revision, getDate(new_deltas[Len(new_deltas)]),
                       txns[transaction])
    /\ txns' = [txns EXCEPT ![transaction].open = FALSE]
    /\ pc' = "add"
    /\ UNCHANGED <<versions, mergedVersions, i, g, deltas, new_deltas, k,
                   directoriesToAdd, addedDirectories, revision, filenames, names,
                   new_filenames, calls, entry>>

\* ------------------------------------------------------------- the sweeps
\* "for i in versions: filenames[i.getRepositoryName()] = i": the delta a name
\* keeps is the last one of versions with that name.
lastDeltaOf(name, vs) ==
    vs[CHOOSE j \in 1..Len(vs) :
          /\ getRepositoryName(vs[j]) = name
          /\ \A h \in (j + 1)..Len(vs) : getRepositoryName(vs[h]) # name]

\* The orders a dictionary with these keys may list them in.
Orders(keys) ==
    {o \in [1..Cardinality(keys) -> keys] : \A a, b \in DOMAIN o : a # b => o[a] # o[b]}

\* The dictionary filenames is built, and propertyUpdate is called with its
\* keys (keys() and values() list the dictionary in the same order).
Filenames ==
    /\ pc = "added"
    /\ g = Len(mergedVersions)
    /\ \E o \in Orders({getRepositoryName(versions[j]) : j \in 1..Len(versions)}) :
           filenames' = [j \in DOMAIN o |->
                            [name |-> o[j], delta |-> lastDeltaOf(o[j], versions)]]
    /\ names' = [j \in DOMAIN filenames' |-> filenames'[j].name]
    /\ pc' = "property"
    /\ UNCHANGED <<versions, mergedVersions, i, g, deltas, new_deltas, k,
                   directoriesToAdd, addedDirectories, revs, txns, revision,
                   new_filenames, calls, entry>>

\* propertyUpdate, one turn of "while len(filenames)": the batch and its
\* transaction.
PropertyBegin ==
    /\ pc = "property"
    /\ names # <<>>
    /\ new_filenames' = Take(names, FilenameBatch)
    /\ names' = Drop(names, FilenameBatch)
    /\ revision' = youngest_rev(revs)
    /\ txns' = Append(txns, _revisionSetup(revs, userid, "Automated property set"))
    /\ pc' = "property_set"
    /\ UNCHANGED <<versions, mergedVersions, i, g, deltas, new_deltas, k,
                   directoriesToAdd, addedDirectories, revs, filenames, calls, entry>>

\* The two properties on every text filename of the batch.
RECURSIVE setProperties(_, _)
setProperties(root, fs) ==
    IF fs = <<>> THEN root
    ELSE setProperties(
             IF isTextFilename(Head(fs))
             THEN change_node_prop(change_node_prop(root, Head(fs), "svn:keywords"),
                                   Head(fs), "svn:eol-style")
             ELSE root,
             Tail(fs))

\* The properties of the batch are set and the transaction is committed.
PropertyCommit ==
    /\ pc = "property_set"
    /\ LET txn == [txns[transaction] EXCEPT
                      !.root = setProperties(txns[transaction].root, new_filenames)]
       IN  /\ revs' = _commit(revs, revision, subversionTime(localtime), txn)
           /\ txns' = [txns EXCEPT ![transaction] = [txn EXCEPT !.open = FALSE]]
    /\ calls' = calls \o [j \in 1..Len(new_filenames) |->
                            [op |-> IF isTextFilename(new_filenames[j])
                                    THEN "property" ELSE "skip",
                             path |-> new_filenames[j], txn |-> transaction]]
    /\ pc' = "property"
    /\ UNCHANGED <<versions, mergedVersions, i, g, deltas, new_deltas, k,
                   directoriesToAdd, addedDirectories, revision, filenames, names,
                   new_filenames, entry>>

\* propertyUpdate returns and idKeyUpdate is called with filenames.values().
IdKeyCall ==
    /\ pc = "property"
    /\ names = <<>>
    /\ deltas' = [j \in DOMAIN filenames |-> filenames[j].delta]
    /\ pc' = "idkey"
    /\ UNCHANGED <<versions, mergedVersions, i, g, new_deltas, k, directoriesToAdd,
                   addedDirectories, revs, txns, revision, filenames, names,
                   new_filenames, calls, entry>>

\* idKeyUpdate, one turn of "while len(deltas)": the batch and its transaction.
IdKeyBegin ==
    /\ pc = "idkey"
    /\ deltas # <<>>
    /\ new_deltas' = Take(deltas, DeltaBatch)
    /\ deltas' = Drop(deltas, DeltaBatch)
    /\ revision' = youngest_rev(revs)
    /\ txns' = Append(txns, _revisionSetup(revs, userid, "Automated keyword replacement"))
    /\ pc' = "idkey_send"
    /\ UNCHANGED <<versions, mergedVersions, i, g, k, directoriesToAdd,
                   addedDirectories, revs, filenames, names, new_filenames, calls, entry>>

\* keywordSubstitution of the contents got with "-k": the text with the
\* Subversion keywords.
keywordSubstitution(delta) == <<delta.pathname, delta.version, "$Id:$">>

\* The deltas of the batch whose filename is a text filename.
textDeltas(ds) == {j \in 1..Len(ds) : isTextFilename(<<getFilename(ds[j])>>)}

RECURSIVE rewrite(_, _, _, _)
rewrite(root, ds, j, changed) ==
    IF j > Len(ds) THEN root
    ELSE rewrite(IF j \in changed
                 THEN send_string(root, getRepositoryName(ds[j]),
                                  keywordSubstitution(ds[j]))
                 ELSE root,
                 ds, j + 1, changed)

\* The text deltas whose contents hold SCCS keywords (what the contents hold
\* is the SCCS tree's to say) are rewritten, and the transaction is committed
\* with the date of the last delta of the batch.
IdKeyCommit ==
    /\ pc = "idkey_send"
    /\ \E changed \in SUBSET textDeltas(new_deltas) :
          /\ LET txn == [txns[transaction] EXCEPT
                           !.root = rewrite(txns[transaction].root, new_deltas, 1, changed)]
             IN  /\ revs' = _commit(revs, revision,
                                    getDate(new_deltas[Len(new_deltas)]), txn)
                 /\ txns' = [txns EXCEPT ![transaction] = [txn EXCEPT !.open = FALSE]]
          /\ calls' = calls \o
                 [j \in 1..Len(new_deltas) |->
                     [op |-> IF j \in changed THEN "rewrite"
                             ELSE IF j \in textDeltas(new_deltas) THEN "fetch"
                             ELSE "pass",
                      path |-> getRepositoryName(new_deltas[j]), txn |-> transaction]]
    /\ pc' = "idkey"
    /\ UNCHANGED <<versions, mergedVersions, i, g, deltas, new_deltas, k,
                   directoriesToAdd, addedDirectories, revision, filenames, names,
                   new_filenames, entry>>

\* idKeyUpdate returns: run() is over.
Done ==
    /\ pc = "idkey"
    /\ deltas = <<>>
    /\ pc' = "done"
    /\ UNCHANGED <<versions, mergedVersions, i, g, deltas, new_deltas, k,
                   directoriesToAdd, addedDirectories, revs, txns, revision,
                   filenames, names, new_filenames, calls, entry>>

Next ==
    \/ Sort
    \/ Merge
    \/ AddCall
    \/ AddBatch
    \/ AddReturn
    \/ AddDirectories
    \/ MakeDir
    \/ CommitDirectories
    \/ BeginContent
    \/ SendFile
    \/ CommitContent
    \/ Filenames
    \/ PropertyBegin
    \/ PropertyCommit
    \/ IdKeyCall
    \/ IdKeyBegin
    \/ IdKeyCommit
    \/ Done

Spec == Init /\ [][Next]_vars

\* The sort and the merge alone, on every list of deltas.
NextMerge ==
    \/ Sort
    \/ Merge

SpecMerge == InitMerge /\ [][NextMerge]_vars

\* ============================================================ properties
\* The places of the change sets: <<a, b>> is the b-th delta of the a-th set.
Slots ==
    UNION { {<<a, b>> : b \in DOMAIN mergedVersions[a]} : a \in DOMAIN mergedVersions }
At(sl) == mergedVersions[sl[1]][sl[2]]

\* The merge loop has run over all of versions.
Merged == pc = "merge" /\ i > Len(versions)

\* Seconds of a date, and the four conditions under which a delta joins the
\* change set of the delta before it.
Seconds(date) == date.min * 60 + date.sec
Joins(a, b) ==
    /\ a.author = b.author
    /\ a.comment = b.comment
    /\ a.pathname # b.pathname
    /\ Seconds(a.date) - Seconds(b.date) < 10
    /\ Seconds(b.date) - Seconds(a.date) < 10

\* C1: once the merge loop is over, every delta of versions is at exactly one
\* place of the change sets, and the change sets hold as many deltas as
\* versions does.
C1_Partition ==
    Merged =>
        /\ \A j \in DOMAIN versions :
               Cardinality({sl \in Slots : At(sl) = versions[j]}) = 1
        /\ Cardinality(Slots) = Len(versions)

\* C2: no change set holds two deltas of the same pathname, at any two of its
\* places.
C2_DistinctPaths ==
    \A a \in DOMAIN mergedVersions :
        \A b, c \in DOMAIN mergedVersions[a] :
            b # c => mergedVersions[a][b].pathname # mergedVersions[a][c].pathname

\* C9: once the merge loop is over, a delta stands directly after the delta
\* that precedes it in versions, in one change set, exactly if it joins it:
\* same author, same comment, another pathname, less than 10 seconds apart.
C9_Greedy ==
    Merged =>
        \A j \in 1..(Len(versions) - 1) :
            Joins(versions[j + 1], versions[j])
              <=> \E sl \in Slots :
                     /\ At(sl) = versions[j]
                     /\ sl[2] < Len(mergedVersions[sl[1]])
                     /\ mergedVersions[sl[1]][sl[2] + 1] = versions[j + 1]

\* C9, its case: a change set built by chaining whose first and last deltas
\* are 10 seconds apart.
C9_Witness ==
    /\ Merged
    /\ \E a \in DOMAIN mergedVersions :
          LET set == mergedVersions[a]
          IN  /\ Len(set) >= 3
              /\ Seconds(set[Len(set)].date) - Seconds(set[1].date) >= 10

\* The place of a delta in a list that holds it once.
Pos(s, d) == CHOOSE j \in DOMAIN s : s[j] = d

\* The content writes of add, in the order they were made.
Sends == {c \in DOMAIN calls : calls[c].op = "send"}
\* The make-directory calls.
MakeDirs == {c \in DOMAIN calls : calls[c].op = "make_dir"}
\* The transactions that are open.
OpenTxns == {t \in DOMAIN txns : txns[t].open}
\* The directories above a path of the repository, the root left out.
Above(path) == {SubSeq(path, 1, n) : n \in 1..(Len(path) - 1)}

\* C3 as claimed: the commit of a content transaction leaves the revision it
\* creates with both date properties set to the date of the last delta sent,
\* and the date properties of the revisions before it as they were.
C3_NewRevisionDated ==
    [][(pc = "add_files" /\ pc' = "add") =>
          LET date == <<"T", new_deltas[Len(new_deltas)].date.min,
                        new_deltas[Len(new_deltas)].date.sec, "Z">>
          IN  /\ Len(revs') = Len(revs) + 1
              /\ revs'[Len(revs')].date = date
              /\ revs'[Len(revs')].committed_date = date
              /\ \A r \in DOMAIN revs :
                     /\ revs'[r].date = revs[r].date
                     /\ revs'[r].committed_date = revs[r].committed_date]_vars

\* new is old sorted by date, deltas of one date in the order old has them.
StableSorted(old, new) ==
    /\ Len(new) = Len(old)
    /\ {new[j] : j \in DOMAIN new} = {old[j] : j \in DOMAIN old}
    /\ \A a, b \in DOMAIN old :
           (\/ Seconds(old[a].date) < Seconds(old[b].date)
            \/ Seconds(old[a].date) = Seconds(old[b].date) /\ a < b)
             => Pos(new, old[a]) < Pos(new, old[b])

\* C4: the sort leaves versions in the order of the dates, deltas of one date
\* in the order the walk met them; and the content writes follow that order: a
\* delta is never written after a delta that stands behind it in versions, nor
\* in a later transaction.
C4_WriteOrder ==
    [][/\ pc = "sort" => StableSorted(versions, versions')
       /\ \A x, y \in Sends' :
              x < y => /\ Pos(versions', calls'[x].delta) <= Pos(versions', calls'[y].delta)
                       /\ calls'[x].txn <= calls'[y].txn]_vars

\* C4, its case: two deltas of one date and a later one have been written.
C4_Witness ==
    \E x, y, z \in Sends :
        /\ x < y /\ y < z
        /\ calls[x].delta # calls[y].delta
        /\ calls[x].delta.date = calls[y].delta.date
        /\ Seconds(calls[y].delta.date) < Seconds(calls[z].delta.date)

\* C5: the deltas of a change set all have the author and the comment of its
\* first delta, and so has the content transaction of each of its batches.
C5_AuthorComment ==
    /\ \A sl \in Slots :
           /\ At(sl).author = mergedVersions[sl[1]][1].author
           /\ At(sl).comment = mergedVersions[sl[1]][1].comment
    /\ pc = "add_files" =>
           /\ txns[transaction].author = mergedVersions[g][1].author
           /\ txns[transaction].log = mergedVersions[g][1].comment

\* C5, its case: the content transaction of a later batch of a change set.
C5_Witness ==
    /\ pc = "add_files"
    /\ Len(mergedVersions[g]) > DeltaBatch
    /\ Len(mergedVersions[g]) - Len(deltas) > DeltaBatch
    /\ new_deltas[1] # mergedVersions[g][1]

\* C6: no directory gets two make-directory calls, and the root gets none.
C6_MakeDirOnce ==
    \A c \in MakeDirs :
        /\ calls[c].path # <<>>
        /\ \A e \in MakeDirs : c # e => calls[c].path # calls[e].path

\* C6, its case: deltas of two change sets under one directory have been
\* written, the directory made once.
C6_Witness ==
    \E x, y \in Sends :
        /\ calls[x].txn < calls[y].txn
        /\ calls[x].delta # calls[y].delta
        /\ Above(calls[x].path) = Above(calls[y].path)
        /\ Above(calls[x].path) # {}
        /\ \A d \in Above(calls[x].path) :
               Cardinality({c \in MakeDirs : calls[c].path = d}) = 1

\* The delta add is about to write has a directory at its path.
Conflict ==
    /\ pc = "add_files"
    /\ k <= Len(new_deltas)
    /\ LET path == getRepositoryName(new_deltas[k])
           root == txns[transaction].root
       IN  path \in DOMAIN root /\ root[path].kind = "dir"

\* C7: a directory at the path of the delta being written ends the run there:
\* the content transaction stays uncommitted, no transaction is begun, and the
\* revisions stay as they are, then and ever after.
C7_Abort ==
    [][/\ Conflict => /\ pc' = "EnvironmentError"
                      /\ UNCHANGED <<revs, txns>>
                      /\ txns[transaction].open
       /\ pc = "EnvironmentError" => UNCHANGED <<pc, revs, txns>>]_vars

\* C7, its case: the run has ended on the error with revisions committed.
C7_Witness ==
    /\ pc = "EnvironmentError"
    /\ Len(revs) > 2
    /\ txns[transaction].open

\* The directories of one delta made in a tree, as _addDirectories makes them.
RECURSIVE MadeIn(_, _)
MadeIn(st, todo) ==
    IF todo = <<>> \/ ~st.ok THEN st
    ELSE IF Head(todo) \in DOMAIN st.root
         THEN [st EXCEPT !.ok = FALSE]
    ELSE MadeIn([ok |-> TRUE,
                 root |-> st.root @@ (Head(todo) :> [kind |-> "dir", props |-> {}]),
                 added |-> st.added \cup {Head(todo)}],
                Tail(todo))

\* The directories a delta lacks, from the top down.
RECURSIVE Lacking(_, _)
Lacking(directory, added) ==
    IF directory = <<>> THEN <<>>
    ELSE Lacking(SubSeq(directory, 1, Len(directory) - 1), added)
           \o (IF directory \in added THEN <<>> ELSE <<directory>>)

\* A whole change set applied at once: first the directories of all of its
\* deltas, then the contents of all of them, in one content transaction.
RECURSIVE DirectoriesAtOnce(_, _)
DirectoriesAtOnce(st, ds) ==
    IF ds = <<>> \/ ~st.ok THEN st
    ELSE LET path == getRepositoryName(Head(ds))
         IN  DirectoriesAtOnce(
                 MadeIn(st, Lacking(SubSeq(path, 1, Len(path) - 1), st.added)),
                 Tail(ds))

RECURSIVE ContentsAtOnce(_, _)
ContentsAtOnce(st, ds) ==
    IF ds = <<>> \/ ~st.ok THEN st
    ELSE LET path == getRepositoryName(Head(ds))
             node == [kind |-> "file", contents |-> <<Head(ds).pathname, Head(ds).version>>,
                      props |-> IF path \in DOMAIN st.root THEN st.root[path].props ELSE {}]
         IN  IF path \in DOMAIN st.root /\ st.root[path].kind = "dir"
             THEN [st EXCEPT !.ok = FALSE]
             ELSE ContentsAtOnce(
                      [st EXCEPT !.root = IF path \in DOMAIN st.root
                                          THEN [st.root EXCEPT ![path] = node]
                                          ELSE st.root @@ (path :> node)],
                      Tail(ds))

AtOnce(root, added, ds) ==
    ContentsAtOnce(DirectoriesAtOnce([ok |-> TRUE, root |-> root, added |-> added], ds), ds)

\* C8: when add has returned for a change set, the tree of the youngest
\* revision is the tree that the change set applied at once, on the revision
\* and the memo add was called with, gives: the same directories, the same
\* contents at every path.
C8_BatchTransparent ==
    pc = "added" =>
        LET whole == AtOnce(revs[entry.rev + 1].root, entry.added, mergedVersions[g])
        IN  /\ whole.ok
            /\ whole.root = revs[Len(revs)].root
            /\ whole.added = addedDirectories

\* C8, its case: add has returned for a change set that it split, with a file
\* written in both batches.
C8_Witness ==
    /\ pc = "added"
    /\ Len(mergedVersions[g]) > DeltaBatch
    /\ \E b \in (DeltaBatch + 1)..Len(mergedVersions[g]) :
          \E a \in 1..DeltaBatch :
              mergedVersions[g][a].pathname = mergedVersions[g][b].pathname

\* C10: at most one transaction is open; while the content transaction of a
\* batch is open, every directory above the path of every delta of the batch
\* is a directory of the revision the transaction was begun on; and every
\* make-directory call was made in a directory transaction.
C10_OneTransaction ==
    /\ Cardinality(OpenTxns) <= 1
    /\ pc = "add_files" =>
           /\ OpenTxns = {transaction}
           /\ \A j \in DOMAIN new_deltas :
                  \A d \in Above(getRepositoryName(new_deltas[j])) :
                      LET committed == revs[txns[transaction].base + 1].root
                      IN  d \in DOMAIN committed /\ committed[d].kind = "dir"
    /\ \A c \in MakeDirs :
           /\ txns[calls[c].txn].author = userid
           /\ txns[calls[c].txn].log = "Automatic directory addition"

\* C10, its case: the content transaction of a batch of two deltas is open,
\* begun on the revision that the directory transaction of the batch made.
C10_Witness ==
    /\ pc = "add_files"
    /\ Len(new_deltas) = 2
    /\ transaction >= 2
    /\ \E c \in MakeDirs : calls[c].txn = transaction - 1
    /\ ~txns[transaction - 1].open
    /\ txns[transaction].base = txns[transaction - 1].base + 1

\* The paths the property sweep set the keyword and line-ending properties on.
PropertyPaths == {calls[c].path : c \in {e \in DOMAIN calls : calls[e].op = "property"}}
\* The paths whose contents the keyword sweep fetched with "-k" (and rewrote,
\* where the substitution changed them).
KeywordPaths ==
    {calls[c].path : c \in {e \in DOMAIN calls : calls[e].op \in {"fetch", "rewrite"}}}

\* C11: when the run is over, the keyword sweep has treated as text exactly
\* the paths that the property sweep has set the two properties on, which are
\* the paths that carry the properties in the youngest revision.
C11_SweepsAgree ==
    pc = "done" =>
        \A j \in DOMAIN filenames :
            LET path == filenames[j].name
                props == revs[Len(revs)].root[path].props
            IN  /\ path \in PropertyPaths <=> path \in KeywordPaths
                /\ path \in PropertyPaths <=> props = {"svn:keywords", "svn:eol-style"}
====
